---- MODULE Spec2Model ----
(***************************************************************************)
(* A model of rustix's raw directory stream reader                         *)
(* (src/imp/linux_raw/fs/dir.rs): `Dir` owns a byte buffer `buf`, a cursor *)
(* `pos` and a pending seek `next`; `Dir::read` refills the buffer with    *)
(* getdents64 when fewer than size_of::<linux_dirent64>() bytes remain and *)
(* decodes one packed linux_dirent64 record; `Dir::rewind` schedules a     *)
(* seek to 0.                                                              *)
(*                                                                         *)
(* A Vec<u8> whose tail is zero fill is kept as [data, zeros]: the bytes   *)
(* `data` followed by `zeros` bytes of value 0, so that the 768-byte       *)
(* resize of read_more is modelled at its real size.                       *)
(***************************************************************************)
EXTENDS Integers, Sequences, FiniteSets, TLC

VARIABLES
    buf,          \* Dir.buf, as [data, zeros]
    cap,          \* Dir.buf.capacity()
    pos,          \* Dir.pos
    next,         \* Dir.next
    kpos,         \* the kernel's position in the directory: entries handed out
    ndir,         \* the number of entries of the directory
    last,         \* the caller's last call: "new", "read" or "rewind"
    res,          \* what the last call returned
    trace,        \* the kernel calls and the decode step of the last call, in order
    prev,         \* last, res.kind, trace and the Dir as they were before the last call
    polluted,     \* the buffer holds what a failed read_more left (no fill since)
    preRewindLen, \* bytes of the buffer that were read in before the last rewind
    noneSince,    \* before the last call, a read had returned None since the last rewind
    supplied,     \* bytes returned by successful getdents calls so far
    consumed,     \* sum of d_reclen over the records decoded so far
    out,          \* entries returned since the last rewind (or construction)
    firstDrain,   \* the entries of the first drain that reached None
    replayed,     \* a rewind followed the first drain
    ops,          \* calls made so far
    badSeen,      \* a getdents call has returned a response cut short
    dropped,      \* bytes that lay at or after the cursor when a refill started, in total
    decIn,        \* the integer given to DecInt::new
    dec,          \* the DecInt built from it: [buf, len, st]
    addr          \* two socket addresses and what eq, cmp and hash make of them

vars == <<buf, cap, pos, next, kpos, ndir, last, res, trace, prev, polluted,
          preRewindLen, noneSince, supplied, consumed, out, firstDrain, replayed, ops,
          badSeen, dropped, decIn, dec, addr>>

dirVars == <<buf, cap, pos, next, kpos, ndir, last, res, trace, prev, polluted,
             preRewindLen, noneSince, supplied, consumed, out, firstDrain, replayed, ops,
             badSeen, dropped>>

decVars == <<decIn, dec>>

\* ------------------------------------------------------------------ bounds

\* Calls of Dir::read and Dir::rewind made by the caller in one behaviour.
MaxOps == 7

\* Entries of the directory the descriptor refers to.
MaxDir == 3

\* ----------------------------------------------------- linux_dirent64 layout

offsetof_d_ino == 0

offsetof_d_off == 8

offsetof_d_reclen == 16

offsetof_d_type == 18

offsetof_d_name == 19

\* size_of::<linux_dirent64>()
SizeofDirent == 24

\* The multiplier of the capacity increment in read_more.
GrowthFactor == 32

\* ----------------------------------------------------------------- helpers

Max(a, b) == IF a >= b THEN a ELSE b

Min(a, b) == IF a <= b THEN a ELSE b

RECURSIVE Pow256(_)
Pow256(k) == IF k = 0 THEN 1 ELSE 256 * Pow256(k - 1)

\* The w bytes of v in native (little-endian) order, for w <= 3.
LeBytes(v, w) == [k \in 1..w |-> (v \div Pow256(k - 1)) % 256]

Zeros(n) == [k \in 1..n |-> 0]

\* A u64 or i64 is kept as its 8 bytes in native order: the value v < 2^24 is
U64(v) == LeBytes(v, 3) \o Zeros(5)

\* Option<u64>
None == [some |-> FALSE, v |-> 0]

Some(x) == [some |-> TRUE, v |-> x]

\* ------------------------------------------------------------- the Vec<u8>

EmptyVec == [data |-> <<>>, zeros |-> 0]

BufLen(b) == Len(b.data) + b.zeros

\* self.buf[i], for 0 <= i < self.buf.len()
ByteAt(b, i) == IF i < Len(b.data) THEN b.data[i + 1] ELSE 0

InBounds(b, i) == i >= 0 /\ i < BufLen(b)

\* Vec::resize(new_len, 0) for new_len >= len: the old bytes, then zero fill.
ResizeGrow(b, newLen) == [b EXCEPT !.zeros = newLen - Len(b.data)]

\* The capacity after Vec::resize(needed, 0): amortized doubling.
NewCapacity(c, needed) == IF needed <= c THEN c ELSE Max(2 * c, needed)

\* ------------------------------------------------------ the directory (kernel)

\* The i-th entry of the directory, i >= 1: inode, type tag and name bytes.
DirIno(i) == <<i % 256, (i + 1) % 256, 0, 0, i % 256, 0, 0, 0>>

DirType(i) == <<4, 8, 10>>[(i % 3) + 1]

DirName(i) == IF i % 2 = 1 THEN <<102, 105, 108, 101, 48 + (i % 10)>> ELSE <<97 + (i % 26)>>

DirEnt(i) == [d_ino |-> DirIno(i), d_type |-> DirType(i), name |-> DirName(i)]

\* d_reclen as the kernel sets it: header, name and NUL, rounded up to 8.
RecLen(e) == ((offsetof_d_name + Len(e.name) + 1 + 7) \div 8) * 8

\* The packed linux_dirent64 record of entry e, d_off being the token `off`.
Record(e, off) ==
    e.d_ino \o U64(off) \o LeBytes(RecLen(e), 2) \o <<e.d_type>>
        \o e.name \o Zeros(RecLen(e) - offsetof_d_name - Len(e.name))

RECURSIVE Records(_, _)
Records(from, to) ==
    IF from > to THEN <<>> ELSE Record(DirEnt(from), from) \o Records(from + 1, to)

\* A response that breaks the kernel's contract: the next records (two at most),
\* the last of them cut 8 bytes short.
CutShort(kp, nd) ==
    LET m == Min(2, nd - kp)
        bytes == Records(kp + 1, kp + m)
    IN [ok |-> TRUE, bytes |-> SubSeq(bytes, 1, Max(0, Len(bytes) - 8)), kpos |-> kp + m]

\* getdents64(fd, buf) with the directory stream at entry kp of nd: `fill` is the
\* kernel's choice, -1 a failure, -2 a response cut short, otherwise the most
\* records it hands out in one call. Unless cut short it returns whole records
\* only, as many as fit in the buffer, and 0 bytes exactly at the end of the
\* directory.
getdents(kp, nd, fill, room) ==
    IF fill = -1
    THEN [ok |-> FALSE, bytes |-> <<>>, kpos |-> kp]
    ELSE IF fill < -1
    THEN CutShort(kp, nd)
    ELSE LET fit == {m \in 0..Min(fill, nd - kp) : Len(Records(kp + 1, kp + m)) <= room}
             m == CHOOSE x \in fit : \A y \in fit : y <= x
         IN [ok |-> TRUE, bytes |-> Records(kp + 1, kp + m), kpos |-> kp + m]

\* _seek(fd, off, SEEK_SET) on the directory descriptor: on success the stream is
\* at the token off (0 is the first entry), on failure it stays where it was.
seek(kp, off, seekOk) == IF seekOk THEN off ELSE kp

\* ------------------------------------------------------- events of one call

\* Each event records whether self.next held a value when the step ran (pend)
\* and the indices of the bytes of self.buf the step read (reads).
SeekEv(d, off, okay) ==
    [op |-> "seek", arg |-> off, ok |-> okay, n |-> 0, pend |-> d.next.some, reads |-> {}]

GetdentsEv(d, room, okay, nread) ==
    [op |-> "getdents", arg |-> room, ok |-> okay, n |-> nread, pend |-> d.next.some,
     reads |-> {}]

DecodeEv(d, at, okay, reclen, rd) ==
    [op |-> "decode", arg |-> at, ok |-> okay, n |-> reclen, pend |-> d.next.some,
     reads |-> rd]

\* -------------------------------------------------------------- the results

NoEntry == [d_ino |-> Zeros(8), d_type |-> 0, name |-> <<>>]

RetNone == [kind |-> "None", entry |-> NoEntry]

RetErr == [kind |-> "Err", entry |-> NoEntry]

RetOk(e) == [kind |-> "Ok", entry |-> e]

\* A failed assert!, unwrap() or slice index: the call unwinds.
RetPanic == [kind |-> "Panic", entry |-> NoEntry]

\* ------------------------------------------------------------------- Dir

\* Dir::_from
NewDir == [buf |-> EmptyVec, cap |-> 0, pos |-> 0, next |-> None]

\* rewind without the pending seek: the cursor alone is moved.
rewind_no_seek(d) == [d EXCEPT !.pos = BufLen(d.buf)]

\* rewind that leaves the cursor where it is.
rewind_keeps_pos(d) == [d EXCEPT !.next = Some(0)]

\* rewind that also empties the buffer.
rewind_clears_buf(d) == [d EXCEPT !.buf = EmptyVec, !.pos = 0, !.next = Some(0)]

\* rewind whose effect depends on a rewind already pending.
rewind_bumps(d) ==
    [d EXCEPT !.pos = BufLen(d.buf), !.next = Some(IF d.next.some THEN d.next.v + 1 ELSE 0)]

\* Dir::rewind
rewind(d) == [d EXCEPT !.pos = BufLen(d.buf), !.next = Some(0)]

\* A read of self.next that does not clear it.
take_next_keep(d) == d

\* self.next.take()
take_next(d) == [d EXCEPT !.next = None]

\* The refill test taken on the capacity instead of the length.
NeedMore_cap(d) == d.cap - d.pos < SizeofDirent

\* A refill test that also refills when exactly one header's worth remains.
NeedMore_le(d) == BufLen(d.buf) - d.pos <= SizeofDirent

\* A refill test that always refills.
NeedMore_always(d) == TRUE

\* A refill test that refills only when nothing at all remains.
NeedMore_empty(d) == BufLen(d.buf) - d.pos <= 0

\* self.buf.len() - self.pos < size_of::<linux_dirent64>()
NeedMore(d) == BufLen(d.buf) - d.pos < SizeofDirent

\* A kernel write that lands after the bytes already in the buffer.
Overwrite_append(b, bytes) ==
    [data |-> b.data \o bytes, zeros |-> BufLen(b) - Len(b.data \o bytes)]

\* The kernel's write of `bytes` at the start of the buffer.
Overwrite(b, bytes) ==
    LET n == Len(bytes)
        keep == IF n < Len(b.data) THEN SubSeq(b.data, n + 1, Len(b.data)) ELSE <<>>
    IN [data |-> bytes \o keep, zeros |-> BufLen(b) - Len(bytes \o keep)]

\* read_more without its final resize: the buffer keeps its grown length.
Truncate_keep(b, n) == b

\* self.buf.resize(nread, 0) for nread <= len
Truncate(b, n) ==
    LET m == Min(n, Len(b.data))
    IN [data |-> SubSeq(b.data, 1, m), zeros |-> n - m]

\* read_more that resizes without resetting the cursor.
grow_keeps_pos(d) ==
    LET newLen == d.cap + GrowthFactor * SizeofDirent
    IN [d EXCEPT !.buf = ResizeGrow(d.buf, newLen),
                 !.cap = NewCapacity(d.cap, newLen)]

\* The first part of read_more: the unconditional resize and cursor reset.
grow(d) ==
    LET newLen == d.cap + GrowthFactor * SizeofDirent
    IN [d EXCEPT !.buf = ResizeGrow(d.buf, newLen),
                 !.cap = NewCapacity(d.cap, newLen),
                 !.pos = 0]

\* read_more without the end-of-stream test.
more_ret_always_ok(nread) == RetOk(NoEntry)

\* What read_more returns for nread bytes.
more_ret(nread) == IF nread = 0 THEN RetNone ELSE RetOk(NoEntry)

\* read_more that calls getdents a second time when the first call fails.
read_more_retry(d, kp, nd, fill) ==
    LET d1 == grow(d)
        room == BufLen(d1.buf)
        k == getdents(kp, nd, fill, room)
        k2 == IF k.ok THEN k ELSE getdents(kp, nd, 1, room)
        nread == Len(k2.bytes)
    IN [self |-> [d1 EXCEPT !.buf = Truncate(Overwrite(d1.buf, k2.bytes), nread)],
        kpos |-> k2.kpos, ret |-> more_ret(nread),
        trace |-> IF k.ok THEN <<GetdentsEv(d1, room, TRUE, nread)>>
                  ELSE <<GetdentsEv(d1, room, FALSE, 0), GetdentsEv(d1, room, TRUE, nread)>>]

\* Dir::read_more, the kernel being at kp of nd and answering `fill`.
read_more(d, kp, nd, fill) ==
    LET d1 == grow(d)
        room == BufLen(d1.buf)
        k == getdents(kp, nd, fill, room)
        nread == Len(k.bytes)
    IN IF ~k.ok
       THEN [self |-> d1, kpos |-> kp, ret |-> RetErr,
             trace |-> <<GetdentsEv(d1, room, FALSE, 0)>>]
       ELSE [self |-> [d1 EXCEPT !.buf = Truncate(Overwrite(d1.buf, k.bytes), nread)],
             kpos |-> k.kpos, ret |-> more_ret(nread),
             trace |-> <<GetdentsEv(d1, room, TRUE, nread)>>]

\* The index of the first NUL byte at or after i, or -1 when there is none.
RECURSIVE FirstNul(_, _)
FirstNul(b, i) ==
    IF i >= BufLen(b) THEN -1
    ELSE IF ByteAt(b, i) = 0 THEN i
    ELSE FirstNul(b, i + 1)

\* self.buf[i..i + n]
Slice(b, i, n) == [k \in 1..n |-> ByteAt(b, i + k - 1)]

\* u16::from_ne_bytes([buf[i], buf[i + 1]])
LoadU16(b, i) == ByteAt(b, i) + 256 * ByteAt(b, i + 1)

\* u64::from_ne_bytes([buf[i], ..., buf[i + 7]]), as its 8 bytes
LoadU64(b, i) == Slice(b, i, 8)

\* Variants of the decode step: without the assert! on d_reclen (checked =
\* FALSE), advancing by the header size instead of d_reclen (fixedAdv), or
\* reading the fields at self.pos after the advance (atNewPos).
decode_variant(d, checked, fixedAdv, atNewPos) ==
    LET pos0 == d.pos
        b == d.buf
        hdrOk == InBounds(b, pos0 + offsetof_d_reclen + 1)
        d_reclen == LoadU16(b, pos0 + offsetof_d_reclen)
        d1 == [d EXCEPT !.pos = pos0 + (IF fixedAdv THEN SizeofDirent ELSE d_reclen)]
        base == IF atNewPos THEN d1.pos ELSE pos0
        name_start == base + offsetof_d_name
        nul == FirstNul(b, name_start)
        name_len == nul - name_start
        e == [d_ino |-> LoadU64(b, base + offsetof_d_ino),
              d_type |-> ByteAt(b, base + offsetof_d_type),
              name |-> Slice(b, name_start, name_len)]
        rdLen == {i \in {pos0 + offsetof_d_reclen, pos0 + offsetof_d_reclen + 1} :
                      InBounds(b, i)}
        rdName == IF nul < 0 THEN name_start..(BufLen(b) - 1) ELSE name_start..nul
        rdAll == rdLen \cup rdName \cup (base + offsetof_d_ino)..(base + offsetof_d_ino + 7)
                     \cup {base + offsetof_d_type}
    IN IF ~hdrOk \/ (checked /\ ~(BufLen(b) - pos0 >= d_reclen))
       THEN [self |-> d, ret |-> RetPanic, trace |-> <<DecodeEv(d, pos0, FALSE, 0, rdLen)>>]
       ELSE IF name_start > BufLen(b) \/ nul < 0
               \/ ~InBounds(b, base + offsetof_d_ino + 7)
               \/ ~InBounds(b, base + offsetof_d_type)
       THEN [self |-> d1, ret |-> RetPanic,
             trace |-> <<DecodeEv(d, pos0, FALSE, d_reclen, rdLen \cup rdName)>>]
       ELSE [self |-> d1, ret |-> RetOk(e),
             trace |-> <<DecodeEv(d, pos0, TRUE, d_reclen, rdAll)>>]

\* decode without the assert! on d_reclen.
decode_no_assert(d) == decode_variant(d, FALSE, FALSE, FALSE)

\* decode that advances the cursor by the header size, not by d_reclen.
decode_fixed_advance(d) == decode_variant(d, TRUE, TRUE, FALSE)

\* decode that reads the fields at the cursor after the advance.
decode_at_new_pos(d) == decode_variant(d, TRUE, FALSE, TRUE)

\* The second half of Dir::read: decode the record at self.pos.
decode(d) ==
    LET pos0 == d.pos
        b == d.buf
        hdrOk == InBounds(b, pos0 + offsetof_d_reclen + 1)
        d_reclen == LoadU16(b, pos0 + offsetof_d_reclen)
        d1 == [d EXCEPT !.pos = pos0 + d_reclen]
        name_start == pos0 + offsetof_d_name
        nul == FirstNul(b, name_start)
        name_len == nul - name_start
        e == [d_ino |-> LoadU64(b, pos0 + offsetof_d_ino),
              d_type |-> ByteAt(b, pos0 + offsetof_d_type),
              name |-> Slice(b, name_start, name_len)]
        rdLen == {i \in {pos0 + offsetof_d_reclen, pos0 + offsetof_d_reclen + 1} :
                      InBounds(b, i)}
        rdName == IF nul < 0 THEN name_start..(BufLen(b) - 1) ELSE name_start..nul
        rdAll == rdLen \cup rdName \cup (pos0 + offsetof_d_ino)..(pos0 + offsetof_d_ino + 7)
                     \cup {pos0 + offsetof_d_type}
    IN IF ~hdrOk \/ ~(BufLen(b) - pos0 >= d_reclen)
       THEN [self |-> d, ret |-> RetPanic, trace |-> <<DecodeEv(d, pos0, FALSE, 0, rdLen)>>]
       ELSE IF name_start > BufLen(b) \/ nul < 0
               \/ ~InBounds(b, pos0 + offsetof_d_ino + 7)
               \/ ~InBounds(b, pos0 + offsetof_d_type)
       THEN [self |-> d1, ret |-> RetPanic,
             trace |-> <<DecodeEv(d, pos0, FALSE, d_reclen, rdLen \cup rdName)>>]
       ELSE [self |-> d1, ret |-> RetOk(e),
             trace |-> <<DecodeEv(d, pos0, TRUE, d_reclen, rdAll)>>]

\* Dir::read after the pending seek: refill when fewer than a header's bytes
\* remain, then decode one record. sk is the call's trace so far.
read_after_seek(d, kp, nd, fill, sk) ==
    IF NeedMore(d)
    THEN LET rm == read_more(d, kp, nd, fill)
             dc == decode(rm.self)
         IN IF rm.ret.kind # "Ok"
            THEN [self |-> rm.self, kpos |-> rm.kpos, ret |-> rm.ret,
                  trace |-> sk \o rm.trace]
            ELSE [self |-> dc.self, kpos |-> rm.kpos, ret |-> dc.ret,
                  trace |-> sk \o rm.trace \o dc.trace]
    ELSE LET dc == decode(d)
         IN [self |-> dc.self, kpos |-> kp, ret |-> dc.ret, trace |-> sk \o dc.trace]

\* Dir::read that goes on after a failed seek.
read_seek_err_ignored(d, kp, nd, seekOk, fill) ==
    LET pending == d.next
        d1 == take_next(d)
        sk == IF pending.some THEN <<SeekEv(d1, pending.v, seekOk)>> ELSE <<>>
        kp1 == IF pending.some THEN seek(kp, pending.v, seekOk) ELSE kp
    IN read_after_seek(d1, kp1, nd, fill, sk)

\* Dir::read, the kernel being at kp of nd; seekOk and fill are the kernel's
\* answers to the _seek and getdents calls the call may issue.
read(d, kp, nd, seekOk, fill) ==
    LET pending == d.next
        d1 == take_next(d)
        sk == IF pending.some THEN <<SeekEv(d1, pending.v, seekOk)>> ELSE <<>>
        kp1 == IF pending.some THEN seek(kp, pending.v, seekOk) ELSE kp
    IN IF pending.some /\ ~seekOk
       THEN [self |-> d1, kpos |-> kp1, ret |-> RetErr, trace |-> sk]
       ELSE read_after_seek(d1, kp1, nd, fill, sk)

\* ------------------------------------------------------- socket addresses

\* The values each field of an address is drawn from: 0..MaxAddrVal.
MaxAddrVal == 1

\* u16::to_be and u16::from_be on a little-endian target: the two bytes swapped.
to_be(p) == (p % 256) * 256 + (p \div 256)

from_be(p) == (p % 256) * 256 + (p \div 256)

\* Ipv4Addr::new(127, 0, 0, k) as the four bytes of in_addr.
Ip4(k) == <<127, 0, 0, k>>

\* Ipv6Addr::new(0, 0, 0, 0, 0, 0, 0, k) as the sixteen bytes of in6_addr.
Ip6(k) == <<0, 0, 0, 0, 0, 0, 0, 0, 0, 0, 0, 0, 0, 0, k \div 256, k % 256>>

\* The ports the addresses are built with.
AddrPort(k) == 8080 + k

\* The arguments of SocketAddrV4::new and of SocketAddrV6::new.
V4Args == [ip : {Ip4(k) : k \in 0..MaxAddrVal}, port : {AddrPort(k) : k \in 0..MaxAddrVal}]

V6Args ==
    [ip : {Ip6(k) : k \in 0..MaxAddrVal}, port : {AddrPort(k) : k \in 0..MaxAddrVal},
     flowinfo : 0..MaxAddrVal, scope_id : 0..MaxAddrVal]

\* SocketAddrV4::new: the sockaddr_in it wraps.
SocketAddrV4_new(ip, port) == [sin_port |-> to_be(port), sin_addr |-> ip]

\* SocketAddrV6::new: the sockaddr_in6 it wraps.
SocketAddrV6_new(ip, port, flowinfo, scope_id) ==
    [sin6_port |-> to_be(port), sin6_flowinfo |-> flowinfo, sin6_addr |-> ip,
     sin6_scope_id |-> scope_id]

\* Ord::cmp of two integers.
CmpInt(x, y) == IF x < y THEN "Less" ELSE IF x > y THEN "Greater" ELSE "Equal"

\* Ordering::then
then(o1, o2) == IF o1 = "Equal" THEN o2 ELSE o1

\* Ord::cmp of two IP addresses: their bytes compared in order.
RECURSIVE CmpIp(_, _)
CmpIp(x, y) ==
    IF x = <<>> THEN "Equal" ELSE then(CmpInt(Head(x), Head(y)), CmpIp(Tail(x), Tail(y)))

\* PartialEq for SocketAddrV4
V4_eq(self, other) == self.sin_port = other.sin_port /\ self.sin_addr = other.sin_addr

\* PartialEq for SocketAddrV6: the second conjunct compares self.inner.sin6_addr
\* with self.inner.sin6_addr.
V6_eq(self, other) ==
    /\ self.sin6_port = other.sin6_port
    /\ self.sin6_addr = self.sin6_addr
    /\ self.sin6_flowinfo = other.sin6_flowinfo
    /\ self.sin6_scope_id = other.sin6_scope_id

\* Ord for SocketAddrV4
V4_cmp(self, other) ==
    then(CmpIp(self.sin_addr, other.sin_addr),
         CmpInt(from_be(self.sin_port), from_be(other.sin_port)))

\* Ord for SocketAddrV6
V6_cmp(self, other) ==
    then(CmpIp(self.sin6_addr, other.sin6_addr),
         CmpInt(from_be(self.sin6_port), from_be(other.sin6_port)))

\* Hash for SocketAddrV4: what is fed to the hasher.
V4_hash(self) == <<self.sin_port, self.sin_addr>>

\* Hash for SocketAddrV6: what is fed to the hasher.
V6_hash(self) == <<self.sin6_port, self.sin6_addr, self.sin6_flowinfo, self.sin6_scope_id>>

\* No comparison made yet.
NoAddr == [fam |-> "none"]

\* ---------------------------------------------------------------- DecInt

\* An integer is kept as a sign and a magnitude in limbs of LimbBase, least
\* significant first, the top limb non-zero unless the integer is 0 (a 64-bit
\* value is beyond the integers of TLC).
MaxLimbs == 2

\* The divisor of itoa's main loop (n % 10000, n /= 10000).
LimbBase == 10000

\* The size of DecInt::buf.
DecBufSize == 20 + 1

LimbVals == {0, 1, 9, 10, 76, 99, 100, 876, 1000, 9876, 9999}

RECURSIVE Mags(_)
Mags(n) ==
    IF n = 1 THEN {<<v>> : v \in LimbVals}
    ELSE Mags(n - 1)
             \cup {Append(m, v) : m \in {x \in Mags(n - 1) : Len(x) = n - 1}, v \in LimbVals \ {0}}

DecZero == [neg |-> FALSE, mag |-> <<0>>]

\* u64::MAX and i64::MIN
U64Max == [neg |-> FALSE, mag |-> <<1615, 955, 737, 6744, 1844>>]

I64Min == [neg |-> TRUE, mag |-> <<5808, 5477, 368, 3372, 922>>]

\* The integers DecInt::new is called with.
DecInputs ==
    ({[neg |-> sg, mag |-> m] : sg \in BOOLEAN, m \in Mags(MaxLimbs)}
         \ {[neg |-> TRUE, mag |-> <<0>>]})
        \cup {U64Max, I64Min}

\* DEC_DIGITS_LUT[2 * d .. 2 * d + 2]: the two ASCII digits of d < 100.
DecLut(d) == <<48 + (d \div 10), 48 + (d % 10)>>

\* itoa's conversion of the magnitude: four digits for each n % 10000 while
\* n >= 10000, then two digits if n >= 100, then one digit or two.
RECURSIVE itoa_digits(_)
itoa_digits(m) ==
    IF Len(m) > 1
    THEN itoa_digits(Tail(m)) \o DecLut(Head(m) \div 100) \o DecLut(Head(m) % 100)
    ELSE LET n == m[1]
             top == IF n >= 100 THEN n \div 100 ELSE n
             low == IF n >= 100 THEN DecLut(n % 100) ELSE <<>>
         IN (IF top < 10 THEN <<48 + top>> ELSE DecLut(top)) \o low

\* The string itoa::fmt hands to write_str, in one call.
itoa_fmt(i) == (IF i.neg THEN <<45>> ELSE <<>>) \o itoa_digits(i.mag)

\* A DecInt whose buffer starts filled with '1' instead of 0.
EmptyDecInt_ones == [buf |-> [k \in 1..DecBufSize |-> 49], len |-> 0, st |-> "ok"]

\* The DecInt that DecInt::new starts from.
EmptyDecInt == [buf |-> [k \in 1..DecBufSize |-> 0], len |-> 0, st |-> "ok"]

\* No DecInt built yet.
NoDecInt == [buf |-> <<>>, len |-> 0, st |-> "none"]

\* write_str that copies the bytes and leaves len as it was.
write_str_keeps_len(w, s) ==
    IF w.len + Len(s) <= Len(w.buf)
    THEN [w EXCEPT !.buf = [k \in 1..Len(w.buf) |->
                               IF k > w.len /\ k <= w.len + Len(s) THEN s[k - w.len] ELSE w.buf[k]]]
    ELSE [w EXCEPT !.st = "err"]

\* DecIntWriter::write_str; st is "err" when it returns Err(fmt::Error).
write_str(w, s) ==
    IF w.len + Len(s) <= Len(w.buf)
    THEN [w EXCEPT !.buf = [k \in 1..Len(w.buf) |->
                               IF k > w.len /\ k <= w.len + Len(s) THEN s[k - w.len] ELSE w.buf[k]],
                   !.len = w.len + Len(s)]
    ELSE [w EXCEPT !.st = "err"]

\* DecInt::new; st is "panic" when the unwrap fails.
new(i) ==
    LET me == write_str(EmptyDecInt, itoa_fmt(i))
    IN IF me.st = "err" THEN [me EXCEPT !.st = "panic"] ELSE me

\* DecInt::as_bytes
as_bytes(d) == SubSeq(d.buf, 1, d.len)

\* DecInt::as_c_str: the slice self.buf[..=self.len], which panics when
\* self.len is not an index of buf.
as_c_str(d) ==
    IF d.len + 1 <= Len(d.buf)
    THEN [ok |-> TRUE, bytes |-> SubSeq(d.buf, 1, d.len + 1)]
    ELSE [ok |-> FALSE, bytes |-> <<>>]

\* The lengths and the strings write_str is called with.
WriteLens == {4, 7, 10, 20, 21, 22}

WriteStrs == {[k \in 1..n |-> c] : n \in WriteLens, c \in {49, 57}}

\* ------------------------------------------------------- the state machine

Self == [buf |-> buf, cap |-> cap, pos |-> pos, next |-> next]

RetUnit == [kind |-> "Unit", entry |-> NoEntry]

Fills(t) == {i \in 1..Len(t) : t[i].op = "getdents"}

Decodes(t) == {i \in 1..Len(t) : t[i].op = "decode"}

Seeks(t) == {i \in 1..Len(t) : t[i].op = "seek"}

OkFill(t) == \E i \in Fills(t) : t[i].ok

FailedFill(t) == \E i \in Fills(t) : ~t[i].ok

RECURSIVE SumN(_, _)
SumN(t, S) == IF S = {} THEN 0 ELSE LET i == CHOOSE x \in S : TRUE IN t[i].n + SumN(t, S \ {i})

Init ==
    /\ buf = NewDir.buf /\ cap = NewDir.cap /\ pos = NewDir.pos /\ next = NewDir.next
    /\ ndir \in 0..MaxDir
    /\ kpos = 0
    /\ last = "new" /\ res = RetUnit /\ trace = <<>>
    /\ prev = [op |-> "new", kind |-> "Unit", trace |-> <<>>, self |-> NewDir, polluted |-> FALSE]
    /\ polluted = FALSE /\ preRewindLen = 0 /\ noneSince = FALSE
    /\ supplied = 0 /\ consumed = 0
    /\ out = <<>> /\ firstDrain = [done |-> FALSE, entries |-> <<>>] /\ replayed = FALSE
    /\ ops = 0
    /\ badSeen = FALSE /\ dropped = 0
    /\ decIn = DecZero /\ dec = NoDecInt
    /\ addr = NoAddr

Remember == prev' = [op |-> last, kind |-> res.kind, trace |-> trace, self |-> Self,
                     polluted |-> polluted]

\* One call of Dir::read with the kernel answering seekOk and fill.
ReadCall(seekOk, fill) ==
    /\ ops < MaxOps
    /\ res.kind # "Panic"
    /\ \E r \in {read(Self, kpos, ndir, seekOk, fill)} :
       LET t == r.trace
       IN
       /\ buf' = r.self.buf /\ cap' = r.self.cap /\ pos' = r.self.pos /\ next' = r.self.next
       /\ kpos' = r.kpos
       /\ last' = "read" /\ res' = r.ret /\ trace' = t
       /\ Remember
       /\ polluted' = IF Fills(t) = {} THEN polluted ELSE FailedFill(t)
       /\ preRewindLen' = IF OkFill(t) THEN 0 ELSE preRewindLen
       /\ noneSince' = (noneSince \/ (last = "read" /\ res.kind = "None"))
       /\ supplied' = supplied + SumN(t, Fills(t))
       /\ consumed' = consumed + SumN(t, {i \in Decodes(t) : t[i].ok})
       /\ out' = IF r.ret.kind = "Ok" THEN Append(out, r.ret.entry) ELSE out
       /\ firstDrain' = IF r.ret.kind = "None" /\ ~firstDrain.done
                        THEN [done |-> TRUE, entries |-> out] ELSE firstDrain
       /\ ops' = ops + 1
       /\ badSeen' = (badSeen \/ (fill < -1 /\ OkFill(t)))
       /\ dropped' = IF Fills(t) = {} THEN dropped ELSE dropped + (BufLen(buf) - pos)
       /\ UNCHANGED <<ndir, replayed, decIn, dec, addr>>

\* Dir::read with any answer of the kernel.
Read == \E seekOk \in BOOLEAN, fill \in -1..MaxDir : fill # 0 /\ ReadCall(seekOk, fill)

\* Dir::read with a kernel that may also return a response cut short.
ReadBad == \E seekOk \in BOOLEAN, fill \in -2..MaxDir : fill # 0 /\ ReadCall(seekOk, fill)

\* Dir::read with a kernel whose calls all succeed.
ReadOk == \E fill \in 1..MaxDir : ReadCall(TRUE, fill)

\* Dir::rewind
Rewind ==
    LET d == rewind(Self)
    IN /\ ops < MaxOps
       /\ res.kind # "Panic"
       /\ buf' = d.buf /\ cap' = d.cap /\ pos' = d.pos /\ next' = d.next
       /\ last' = "rewind" /\ res' = RetUnit /\ trace' = <<>>
       /\ Remember
       /\ preRewindLen' = Len(buf.data)
       /\ noneSince' = FALSE
       /\ out' = <<>>
       /\ replayed' = firstDrain.done
       /\ ops' = ops + 1
       /\ UNCHANGED <<kpos, ndir, polluted, supplied, consumed, firstDrain, badSeen, dropped,
                      decIn, dec, addr>>

Next == Read \/ Rewind

Spec == Init /\ [][Next]_vars

NextOk == ReadOk \/ Rewind

\* The kernel never fails and the directory is not changed.
SpecOk == Init /\ [][NextOk]_vars

NextBad == ReadBad \/ Rewind

\* DecInt::new(i), the one construction of a behaviour.
DecNew ==
    \E i \in DecInputs :
        /\ dec = NoDecInt
        /\ decIn' = i
        /\ dec' = new(i)
        /\ UNCHANGED <<addr>>
        /\ UNCHANGED dirVars

NextDec == DecNew

\* The DecIntWriter that DecInt::new builds, before anything is written.
DecStart ==
    /\ dec = NoDecInt
    /\ dec' = EmptyDecInt
    /\ UNCHANGED <<decIn, addr>>
    /\ UNCHANGED dirVars

\* One call of DecIntWriter::write_str; dec.st is what the call returned.
DecWrite ==
    \E s \in WriteStrs :
        /\ dec # NoDecInt
        /\ dec' = write_str([dec EXCEPT !.st = "ok"], s)
        /\ UNCHANGED <<decIn, addr>>
        /\ UNCHANGED dirVars

NextWrite == DecStart \/ DecWrite

\* Two SocketAddrV4 built and compared, ordered and hashed.
CompareV4 ==
    \E x \in V4Args, y \in V4Args :
        LET a == SocketAddrV4_new(x.ip, x.port)
            b == SocketAddrV4_new(y.ip, y.port)
        IN /\ addr = NoAddr
           /\ addr' = [fam |-> "v4", a |-> x, b |-> y, eq |-> V4_eq(a, b),
                       cmp |-> V4_cmp(a, b), ha |-> V4_hash(a), hb |-> V4_hash(b)]
           /\ UNCHANGED decVars
           /\ UNCHANGED dirVars

\* Two SocketAddrV6 built and compared, ordered and hashed.
CompareV6 ==
    \E x \in V6Args, y \in V6Args :
        LET a == SocketAddrV6_new(x.ip, x.port, x.flowinfo, x.scope_id)
            b == SocketAddrV6_new(y.ip, y.port, y.flowinfo, y.scope_id)
        IN /\ addr = NoAddr
           /\ addr' = [fam |-> "v6", a |-> x, b |-> y, eq |-> V6_eq(a, b),
                       cmp |-> V6_cmp(a, b), ha |-> V6_hash(a), hb |-> V6_hash(b)]
           /\ UNCHANGED decVars
           /\ UNCHANGED dirVars

NextAddr == CompareV4 \/ CompareV6

\* Pairs of socket addresses.
SpecAddr == Init /\ [][NextAddr]_vars

\* Any sequence of write_str calls on one writer.
SpecWrite == Init /\ [][NextWrite]_vars

\* Calls of DecInt::new alone.
SpecDec == Init /\ [][NextDec]_vars

\* The kernel may fail and may break its contract of returning whole records.
SpecBad == Init /\ [][NextBad]_vars

\* ------------------------------------------------------------------ claims

ZeroFill(t) == \E i \in Fills(t) : t[i].ok /\ t[i].n = 0

\* C1: with a kernel that never fails and an unchanged directory, a drain to
\* None that follows a rewind returns the same entries, in the same order, as
\* the first drain to None (also when the rewind is made in the exhausted state).
C1_Replay ==
    (firstDrain.done /\ last = "read" /\ res.kind = "None") => out = firstDrain.entries

C1_Witness ==
    /\ replayed /\ last = "read" /\ res.kind = "None"
    /\ prev.op = "read" /\ prev.kind = "Ok"
    /\ Len(out) >= 2 /\ out = firstDrain.entries

\* C2: a read whose getdents call returns zero bytes returns None: no entry,
\* no error, and nothing is decoded.
C2_ZeroFillIsNone ==
    (last = "read" /\ ZeroFill(trace)) => (res = RetNone /\ Decodes(trace) = {})

C2_Witness ==
    last = "read" /\ ZeroFill(trace) /\ res = RetNone /\ prev.kind = "Ok" /\ ndir > 0

\* C3 as stated: once a read has returned None, no later read before the next
\* rewind issues a kernel call (neither getdents nor seek).
C3_NoKernelCallAfterNone ==
    (last = "read" /\ noneSince) => (Fills(trace) = {} /\ Seeks(trace) = {})

\* C3 as amended: once a read has returned None, no later read before the next
\* rewind issues a seek, and the read that directly follows a None issues
\* getdents again, exactly once and as its first step.
C3_RefillAfterNone ==
    (last = "read" /\ noneSince) =>
        /\ Seeks(trace) = {}
        /\ (prev.op = "read" /\ prev.kind = "None") =>
               (Cardinality(Fills(trace)) = 1 /\ trace[1].op = "getdents")

C3_Witness ==
    /\ last = "read" /\ noneSince /\ prev.op = "read" /\ prev.kind = "None"
    /\ Len(trace) = 1 /\ trace[1].op = "getdents" /\ trace[1].ok

\* C4 as stated: once a read has returned None, every later read before the
\* next rewind returns None, whatever the kernel calls that follow do.
C4_NoneForever == (last = "read" /\ noneSince) => res.kind = "None"

\* C4 as amended: once a read has returned None, a later read before the next
\* rewind returns None as long as every getdents call issued since has again
\* returned zero bytes (each such read issues one); the read whose getdents call
\* fails returns Err.
C4_NoneWhileZeroFill ==
    /\ (last = "read" /\ noneSince /\ ~polluted) => (res = RetNone /\ ZeroFill(trace))
    /\ (last = "read" /\ prev.op = "read" /\ prev.kind = "None" /\ FailedFill(trace))
           => res = RetErr

C4_Witness ==
    /\ last = "read" /\ noneSince /\ ~polluted /\ res = RetNone
    /\ prev.op = "read" /\ prev.kind = "None" /\ ndir > 0

\* C5: the sum of the declared lengths of the records decoded so far never
\* exceeds the bytes successful getdents calls have returned so far.
C5_ConsumedWithinSupplied == consumed <= supplied

C7_RetryRefills ==
    (last = "read" /\ prev.op = "read" /\ prev.kind = "Err" /\ FailedFill(prev.trace))
        => Fills(trace) # {}

\* C8: when a seek is pending and the seek call fails, the read returns Err at
\* once: no getdents call, no decode, buffer and cursor as before the call.
C8_SeekFailure ==
    (last = "read" /\ prev.self.next.some /\ trace # <<>> /\ ~trace[1].ok) =>
        /\ Len(trace) = 1 /\ trace[1].op = "seek" /\ trace[1].arg = prev.self.next.v
        /\ res = RetErr
        /\ buf = prev.self.buf /\ pos = prev.self.pos /\ cap = prev.self.cap

C8_Witness ==
    /\ last = "read" /\ prev.self.next.some /\ trace # <<>> /\ ~trace[1].ok
    /\ res = RetErr /\ Len(buf.data) > 0 /\ pos = BufLen(buf)

\* C9: no record that was in the buffer before a rewind is returned by a read
\* after it.
C9_NoStaleAfterRewind ==
    last = "read" => \A i \in Decodes(trace) : ~(trace[i].ok /\ trace[i].arg < preRewindLen)

\* C10: when a seek is pending at a read, the seek with that value is the first
\* step of the read and nothing follows it unless it succeeded; at every getdents
\* call and every decode step self.next is empty, and it is empty after the read.
C10_SeekBeforeDecode ==
    last = "read" =>
        /\ \A i \in Fills(trace) \cup Decodes(trace) : ~trace[i].pend
        /\ prev.self.next.some =>
               /\ trace # <<>> /\ trace[1].op = "seek" /\ trace[1].arg = prev.self.next.v
               /\ Len(trace) > 1 => trace[1].ok
        /\ \A i \in Seeks(trace) : i = 1 /\ prev.self.next.some
        /\ next = None

C10_Witness ==
    /\ last = "read" /\ prev.self.next.some /\ res.kind = "Ok"
    /\ Len(trace) = 3 /\ trace[1].op = "seek" /\ trace[3].op = "decode"

\* C11: between calls 0 <= pos <= buf.len(), whatever the calls made and the
\* kernel's answers (failures, zero bytes, responses cut short), so that
\* buf.len() - pos never underflows.
C11_CursorInBounds == 0 <= pos /\ pos <= BufLen(buf)

C11_Witness ==
    /\ last = "read" /\ polluted /\ res.kind = "Ok"
    /\ 0 < pos /\ pos < BufLen(buf) /\ prev.op = "read" /\ prev.kind = "Err"

\* C12: when the record at the cursor declares a d_reclen greater than the bytes
\* that remain in the buffer, read panics on the assert: it returns neither an
\* entry nor an Err, leaves the cursor where it was, and has read the two bytes
\* of the length field only, both inside the buffer.
C12_OverlongRecordPanics ==
    last = "read" =>
        \A i \in Decodes(trace) :
            LET at == trace[i].arg
            IN (at + offsetof_d_reclen + 1 < BufLen(buf)
                    /\ LoadU16(buf, at + offsetof_d_reclen) > BufLen(buf) - at) =>
                   /\ res = RetPanic /\ ~trace[i].ok
                   /\ pos = at
                   /\ trace[i].reads = {at + offsetof_d_reclen, at + offsetof_d_reclen + 1}
                   /\ \A j \in trace[i].reads : 0 <= j /\ j < BufLen(buf)

C12_Witness ==
    /\ last = "read" /\ res = RetPanic /\ pos = 0 /\ BufLen(buf) = 24
    /\ LoadU16(buf, offsetof_d_reclen) = 32
    /\ Decodes(trace) # {}

\* C13: a read that returns Some(Ok(entry)) decodes exactly one record, the one
\* at the cursor (offset 0 after a refill), and advances the cursor by exactly
\* the d_reclen that record declares.
C13_OneRecordPerEntry ==
    (last = "read" /\ res.kind = "Ok") =>
        /\ Cardinality(Decodes(trace)) = 1
        /\ \A i \in Decodes(trace) :
               /\ trace[i].ok
               /\ trace[i].arg = (IF Fills(trace) # {} THEN 0 ELSE prev.self.pos)
               /\ trace[i].n = LoadU16(buf, trace[i].arg + offsetof_d_reclen)
               /\ pos = trace[i].arg + trace[i].n

\* Records of 24 and 32 bytes at offsets 0 and 24: two entries, cursor 56.
C13_Witness ==
    /\ last = "read" /\ res = RetOk(DirEnt(3)) /\ prev.kind = "Ok"
    /\ Len(out) >= 2 /\ out[Len(out) - 1] = DirEnt(2)
    /\ LoadU16(buf, offsetof_d_reclen) = 24 /\ LoadU16(buf, 24 + offsetof_d_reclen) = 32
    /\ prev.self.pos = 24 /\ pos = 56 /\ BufLen(buf) = 56

\* C14: the entry returned is built from the record at the cursor before the
\* advance: its inode number is the 8 bytes at offset 0 of the record, its type
\* the byte at offset 18, its name the bytes from offset 19 up to, and not
\* including, the first NUL.
C14_EntryFromRecordAtCursor ==
    (last = "read" /\ res.kind = "Ok") =>
        \A i \in Decodes(trace) :
            LET at == trace[i].arg
                e == res.entry
            IN /\ Len(e.d_ino) = 8
               /\ \A k \in 1..8 : e.d_ino[k] = ByteAt(buf, at + offsetof_d_ino + k - 1)
               /\ e.d_type = ByteAt(buf, at + offsetof_d_type)
               /\ \A k \in 1..Len(e.name) :
                      e.name[k] = ByteAt(buf, at + offsetof_d_name + k - 1) /\ e.name[k] # 0
               /\ ByteAt(buf, at + offsetof_d_name + Len(e.name)) = 0
               /\ (~polluted => \E r \in 1..ndir : e = DirEnt(r))

\* The name bytes "file1" followed by NUL give the name "file1".
C14_Witness ==
    /\ last = "read" /\ res.kind = "Ok"
    /\ res.entry.name = <<102, 105, 108, 101, 49>>
    /\ \E i \in Decodes(trace) :
           ByteAt(buf, trace[i].arg + offsetof_d_name + 5) = 0 /\ trace[i].n = 32

\* C15: no kernel call is retried: one read issues at most one _seek and at most
\* one getdents, and when either fails it is the last thing the read does and
\* the read returns Some(Err).
C15_NoRetry ==
    last = "read" =>
        /\ Cardinality(Seeks(trace)) <= 1
        /\ Cardinality(Fills(trace)) <= 1
        /\ \A i \in Seeks(trace) \cup Fills(trace) :
               ~trace[i].ok => (i = Len(trace) /\ res = RetErr)

C15_Witness ==
    /\ last = "read" /\ res = RetErr
    /\ Seeks(trace) # {} /\ FailedFill(trace)

\* C16: rewind returns () and calls the kernel not at all; it sets next to
\* Some(0) and pos to buf.len() and leaves the buffer's contents, length and
\* capacity as they were.  The seek is issued by the next read, first thing, and
\* its failure is that read's Some(Err).
C16_RewindOnlyMarks ==
    /\ last = "rewind" =>
           /\ res = RetUnit /\ trace = <<>>
           /\ next = Some(0) /\ pos = BufLen(buf)
           /\ buf = prev.self.buf /\ cap = prev.self.cap
    /\ (last = "read" /\ prev.op = "rewind") =>
           /\ Len(trace) >= 1 /\ trace[1].op = "seek" /\ trace[1].arg = 0
           /\ ~trace[1].ok => (res = RetErr /\ Len(trace) = 1)

C16_Witness ==
    /\ last = "rewind" /\ BufLen(buf) > 0 /\ prev.self.pos < BufLen(buf)
    /\ prev.kind = "Ok"

\* The value of a string of ASCII digits.
RECURSIVE DigitsValue(_)
DigitsValue(ds) ==
    IF ds = <<>> THEN 0
    ELSE DigitsValue(SubSeq(ds, 1, Len(ds) - 1)) * 10 + (ds[Len(ds)] - 48)

\* The limbs of the integer a string of ASCII digits denotes.
RECURSIVE DigitsLimbs(_)
DigitsLimbs(ds) ==
    IF Len(ds) <= 4 THEN <<DigitsValue(ds)>>
    ELSE <<DigitsValue(SubSeq(ds, Len(ds) - 3, Len(ds)))>>
             \o DigitsLimbs(SubSeq(ds, 1, Len(ds) - 4))

\* C17: DecInt::new(i) succeeds and as_bytes() is the decimal ASCII string of
\* i: a '-' first exactly when i is negative, then digits only, no leading zero
\* (but "0" itself), denoting the magnitude of i, and nothing else; 9876 gives
\* "9876".
C17_DecimalAscii ==
    dec.st # "none" =>
        LET b == as_bytes(dec)
            body == IF decIn.neg THEN Tail(b) ELSE b
        IN /\ dec.st = "ok"
           /\ Len(b) = dec.len /\ Len(b) >= 1
           /\ decIn.neg <=> b[1] = 45
           /\ Len(body) >= 1
           /\ \A k \in 1..Len(body) : body[k] \in 48..57
           /\ Len(body) > 1 => body[1] # 48
           /\ DigitsLimbs(body) = decIn.mag
           /\ decIn = [neg |-> FALSE, mag |-> <<9876>>] => b = <<57, 56, 55, 54>>

C17_Witness ==
    /\ dec.st = "ok" /\ decIn = [neg |-> FALSE, mag |-> <<9876>>]
    /\ as_bytes(dec) = <<57, 56, 55, 54>>

\* C18: with a kernel that never fails and returns whole records, the entries
\* read since the start (or since the last rewind) are the kernel's records in
\* order, none skipped, repeated or reordered; a None comes only after all of
\* them; and what lies unconsumed in the buffer is exactly the records the
\* kernel has returned and read has not.
C18_EntriesAreKernelRecords ==
    /\ out = [i \in 1..Len(out) |-> DirEnt(i)]
    /\ (last = "read" /\ res.kind = "None") => Len(out) = ndir
    /\ next = None =>
           /\ Len(out) <= kpos
           /\ Slice(buf, pos, BufLen(buf) - pos) = Records(Len(out) + 1, kpos)

\* The third entry is the first record of a later refill.
C18_Witness ==
    /\ last = "read" /\ res = RetOk(DirEnt(3)) /\ Len(out) = 3
    /\ Fills(trace) # {} /\ prev.self.pos = BufLen(prev.self.buf) /\ prev.self.pos > 0
    /\ prev.kind = "Ok"

\* C19 as stated: a refill never drops a kernel-supplied byte that lay at or
\* after the cursor when it started.
C19_NoByteDropped == dropped = 0

\* C19: a refill preserves nothing: it starts only when fewer bytes than a
\* record header remain, resets the cursor to 0, and leaves in the buffer the new
\* response alone.  While every response has ended on a record boundary, the
\* tail it discards is empty, so that no kernel-supplied byte is lost.
C19_RefillReplacesBuffer ==
    /\ ~badSeen => dropped = 0
    /\ (last = "read" /\ Fills(trace) # {}) =>
           /\ BufLen(prev.self.buf) - prev.self.pos < SizeofDirent
           /\ \A i \in Fills(trace) : trace[i].ok => BufLen(buf) = trace[i].n
           /\ \A i \in Decodes(trace) : trace[i].arg = 0

C19_Witness ==
    /\ last = "read" /\ OkFill(trace) /\ ~badSeen /\ res.kind = "Ok"
    /\ prev.op = "read" /\ prev.kind = "Ok"
    /\ prev.self.pos = BufLen(prev.self.buf) /\ prev.self.pos > 0

\* C20 as stated: a decode that yields an entry has read only bytes of
\* [cursor, cursor + d_reclen).
C20_ReadsWithinRecord ==
    last = "read" =>
        \A i \in Decodes(trace) :
            trace[i].ok =>
                \A j \in trace[i].reads : trace[i].arg <= j /\ j < trace[i].arg + trace[i].n

\* C21: after a refill whose getdents call returned n bytes, decoding starts at
\* cursor 0 and the buffer is exactly those n bytes, the records the kernel
\* returned in that call: nothing of an earlier fill and none of the zero fill
\* of the resize is left.
C21_RefillLeavesResponseOnly ==
    (last = "read" /\ OkFill(trace)) =>
        /\ \A i \in Fills(trace) :
               /\ BufLen(buf) = trace[i].n
               /\ Len(buf.data) = trace[i].n /\ buf.zeros = 0
        /\ \E j \in 0..kpos : buf.data = Records(j + 1, kpos)
        /\ \A i \in Decodes(trace) : trace[i].arg = 0
        /\ Decodes(trace) = {} => pos = 0

\* A refill after a failed one: the buffer shrinks from the zero-filled size to
\* the response.
C21_Witness ==
    /\ last = "read" /\ OkFill(trace) /\ prev.polluted
    /\ BufLen(prev.self.buf) > BufLen(buf) /\ BufLen(buf) > 0

\* C22: a read whose pending seek, if any, succeeded calls getdents exactly when
\* fewer bytes than size_of::<linux_dirent64>() lie between the cursor and the
\* end of the buffer; otherwise it decodes from the buffer with no getdents call.
\* A read whose seek failed calls getdents not at all.
C22_RefillIffShortOfHeader ==
    last = "read" =>
        LET seekFailed == \E i \in Seeks(trace) : ~trace[i].ok
            short == BufLen(prev.self.buf) - prev.self.pos < SizeofDirent
        IN /\ seekFailed => Fills(trace) = {}
           /\ ~seekFailed => (Fills(trace) # {} <=> short)
           /\ (~seekFailed /\ ~short) => (Decodes(trace) # {} /\ buf = prev.self.buf)

\* A refill with 16 bytes, less than a header, left after the cursor.
C22_Witness ==
    /\ last = "read" /\ Fills(trace) # {}
    /\ BufLen(prev.self.buf) - prev.self.pos = 16

\* C23: a rewind that follows a rewind changes nothing; a read issues a seek
\* exactly when a rewind was the call before it, and then one seek, to offset 0.
C23_RewindIdempotent ==
    /\ (last = "rewind" /\ prev.op = "rewind") => Self = prev.self
    /\ last = "read" =>
           /\ Seeks(trace) # {} <=> prev.op = "rewind"
           /\ Cardinality(Seeks(trace)) <= 1
           /\ \A i \in Seeks(trace) : trace[i].arg = 0 /\ i = 1

C23_Witness ==
    /\ last = "rewind" /\ prev.op = "rewind" /\ BufLen(buf) > 0 /\ next = Some(0)

\* C24 as stated: the read that follows a read whose seek failed attempts the
\* seek again, and returns neither an entry nor None without a seek of its own.
C24_RewindNotLost ==
    (last = "read" /\ prev.op = "read" /\ \E i \in Seeks(prev.trace) : ~prev.trace[i].ok) =>
        /\ Seeks(trace) # {}
        /\ res.kind \in {"Ok", "None"} => \E i \in Seeks(trace) : trace[i].ok

\* C25 as stated: an entry is returned only when the last getdents call
\* succeeded, and it is one of the directory's entries, decoded from the bytes
\* of that call.
C25_NoPhantomEntries ==
    (last = "read" /\ res.kind = "Ok") =>
        /\ ~polluted
        /\ \E r \in 1..ndir : res.entry = DirEnt(r)

\* C26 as stated: a read that returns an entry has moved the cursor forward or
\* has replaced the buffer by a new response.
C26_EntryMakesProgress ==
    (last = "read" /\ res.kind = "Ok") => (pos > prev.self.pos \/ OkFill(trace))

\* C27: a DecInt built by DecInt::new from an integer of at most 64 bits has
\* len <= 20 and zero bytes from buf[len] on, so that as_c_str's slice
\* buf[..=len] is within buf and is the sign and digits followed by one NUL.
C27_NulTerminated ==
    dec.st # "none" =>
        LET c == as_c_str(dec)
        IN /\ dec.st = "ok"
           /\ Len(dec.buf) = DecBufSize /\ dec.len <= DecBufSize - 1
           /\ \A k \in (dec.len + 1)..DecBufSize : dec.buf[k] = 0
           /\ c.ok /\ Len(c.bytes) = dec.len + 1
           /\ c.bytes[dec.len + 1] = 0
           /\ \A k \in 1..dec.len : c.bytes[k] \in (48..57) \cup {45}

\* u64::MAX fills 20 bytes and leaves the last one for the NUL.
C27_Witness ==
    /\ dec.st = "ok" /\ decIn = U64Max /\ dec.len = DecBufSize - 1
    /\ dec.buf[DecBufSize] = 0 /\ as_c_str(dec).ok

\* C30 as stated: whatever write_str calls were made, len is at most 20 and the
\* last byte of buf is still the NUL terminator.
C30_LenLeavesRoomForNul ==
    dec.st \in {"ok", "err"} =>
        /\ dec.len <= DecBufSize - 1
        /\ dec.buf[DecBufSize] = 0

\* C28 as stated: two SocketAddrV6 are equal exactly when they were built from
\* the same IP address, port, flowinfo and scope_id.
C28_V6EqComparesAllFields ==
    addr.fam = "v6" => (addr.eq <=> addr.a = addr.b)

\* C29 as stated: for SocketAddrV4 and SocketAddrV6, a == b exactly when
\* a.cmp(b) is Equal, and a == b implies that a and b feed the hasher the same
\* data.
C29_EqOrdHashAgree ==
    addr.fam # "none" =>
        /\ addr.eq <=> addr.cmp = "Equal"
        /\ addr.eq => addr.ha = addr.hb

====
